---- MODULE Spec2Model ----
(***************************************************************************)
(* Pomodoro CLI: the timer/session state machine (src/src/timer.py), the   *)
(* session log (src/src/stats.py), the task registry                       *)
(* (src/src/task_manager.py) and the menu shell that drives them           *)
(* (src/main.py), as one single-threaded state machine.  A step of the     *)
(* machine runs the code from one blocking point (an input() prompt or a   *)
(* countdown) to the next.                                                 *)
(***************************************************************************)
EXTENDS Integers, Sequences, FiniteSets, TLC

\* ------------------------------------------------------------------ bounds
\* pomodoros a run may count before the menu stops offering the timer
MaxPomodoros == 5
\* nested start_pomodoro frames ("Start another pomodoro? y")
MaxDepth == 2
\* last value of the logical clock
MaxNow == 1
\* tasks the registry may hold
MaxTasks == 2
\* pomodoros counted in the runs that also use the settings and task menus
MaxShortRun == 2
\* largest pomodoros_spent a task is driven to
MaxSpent == 1
\* clock values per calendar day
DayLen == 2
\* longest duration, in seconds, handed to countdown() on its own
MaxSeconds == 4
\* clock ticks per second: the resolution at which time.time() is read
TicksPerSecond == 3
\* last calendar day a stored session log reaches back from
MaxDay == 4
\* records in a stored session log of mixed kinds
MaxLog == 3

\* ------------------------------------------------------- program constants
DefaultPomodoroDuration == 25 * 60
DefaultShortBreakDuration == 5 * 60
DefaultLongBreakDuration == 15 * 60
pomodoros_until_long_break == 4
SecondsPerMinute == 60

\* ------------------------------------------------------------ input sets
\* minutes typed into the settings menu (int(input(...)))
MinuteInputs == {0, 1}
\* answers to the y/n prompts after .strip().lower()
Answers == {"y", "n", ""}
\* task names typed into the task menu (non-empty after strip)
TaskNames == {"a", "b"}
Priorities == {"high", "medium", "low"}
\* priority arguments handed to add_task and set_priority
PriorityInputs == {"high", "low", "urgent"}

\* ---------------------------------------------------------------- values
\* Python None for an optional value: the empty tuple; Some(x) is <<x>>
None == <<>>
Some(x) == <<x>>
\* return values: True, False, None, or an object
PyTrue == <<"True">>
PyFalse == <<"False">>
Returned(x) == <<"value", x>>
NoChoice == "-"
NoBreak == "-"

VARIABLES
    pc,                    \* where the single thread of control is blocked
    depth,                 \* active start_pomodoro frames
    task,                  \* start_pomodoro's task argument (None or Some(task))
    choice,                \* start_pomodoro's local `choice`
    break_type,            \* start_break's argument
    cd_duration,           \* countdown's duration argument
    frame_logged,          \* history: the open frame's pomodoro countdown has yielded a record
    pomodoro_duration,
    short_break_duration,
    long_break_duration,
    current_pomodoros,
    timer_sessions,        \* timer.stats.sessions
    stats_sessions,        \* main()'s stats.sessions
    sessions_file,         \* data/sessions.json
    tasks,                 \* task_manager.tasks
    tasks_file,            \* data/tasks.json
    now,                   \* the wall clock
    disk,                  \* "ok", or "failing" while writes to data/ fail
    data_dir,              \* "present" once data/ exists, "absent" before
    last_notification,     \* title of the notification fired last
    shown,                 \* stats_data handed to the display
    long_due,              \* history: how a long break fell due, "no" once it starts
    cd_pc,                 \* where countdown() is: idle, test, body, sleep, returned, raised
    clock,                 \* time.time(), in clock ticks
    start_time,            \* countdown's start_time
    end_time,              \* countdown's end_time
    remaining,             \* countdown's remaining, in whole seconds
    cd_returns,            \* history: times the running countdown has returned True
    result,                \* what the last call of the task registry's API returned
    message                \* what the task menu printed last: none, success, error

vars == <<pc, depth, task, choice, break_type, cd_duration, frame_logged, pomodoro_duration,
          short_break_duration, long_break_duration, current_pomodoros,
          timer_sessions, stats_sessions, sessions_file, tasks, tasks_file,
          now, disk, data_dir, last_notification, shown, long_due, cd_pc, clock,
          start_time, end_time, remaining, cd_returns, result, message>>

countdown == <<cd_pc, clock, start_time, end_time, remaining, cd_returns>>
timerLocals == <<depth, task, choice, break_type, cd_duration, frame_logged>>
settings == <<pomodoro_duration, short_break_duration, long_break_duration>>
sessionLog == <<timer_sessions, sessions_file>>
registry == <<tasks, tasks_file>>

\* ------------------------------------------------------------ record store
\* a file under data/: absent, unparsable, or holding a JSON document
FileAbsent == [state |-> "absent", data |-> <<>>]
FileCorrupt == [state |-> "corrupt", data |-> <<>>]
FileOk(data) == [state |-> "ok", data |-> data]

\* json.load inside `if os.path.exists` / try / bare except: the parsed
\* document, [] when the file is absent or unparsable
load(file) == IF file.state = "ok" THEN file.data ELSE <<>>

\* _ensure_data_directory: os.makedirs('data', exist_ok=True) does nothing
\* when data/ is there, creates it when it can, and raises otherwise; no
\* caller catches that
makedirs_raises == data_dir = "absent" /\ disk = "failing"

\* _save_sessions / _save_tasks: open(..., 'w') + json.dump, exceptions
\* swallowed.  Either the dump lands, or open() fails and the file is as it
\* was, or open() has truncated the file and the dump dies part-way.
save(file, data) ==
    IF disk = "ok" THEN {FileOk(data)} ELSE {file, FileCorrupt}

\* json's table of Python and JSON values: int, str, bool, None
json_number(n) == <<"number", n>>

json_string(s) == <<"string", s>>

\* mutant: True and False are written as the numbers 1 and 0
json_bool_as_number(b) == IF b THEN <<"number", 1>> ELSE <<"number", 0>>

json_bool(b) == IF b THEN <<"true">> ELSE <<"false">>

json_null == <<"null">>

\* a field that holds None or a str
json_optional(v) == IF v = None THEN json_null ELSE json_string(v[1])

py_number(j) == j[2]

py_string(j) == j[2]

py_bool(j) == j[1] = "true"

py_optional(j) == IF j[1] = "null" THEN None ELSE Some(j[2])

\* json.dump(self.tasks, f): one object per task dict
json_dump_tasks(ts) ==
    [i \in 1..Len(ts) |->
        [id |-> json_number(ts[i].id),
         name |-> json_string(ts[i].name),
         priority |-> json_string(ts[i].priority),
         completed |-> json_bool(ts[i].completed),
         created_at |-> json_string(ts[i].created_at),
         completed_at |-> json_optional(ts[i].completed_at),
         pomodoros_spent |-> json_number(ts[i].pomodoros_spent)]]

\* json.load(f) of a task file
json_load_tasks(doc) ==
    [i \in 1..Len(doc) |->
        [id |-> py_number(doc[i].id),
         name |-> py_string(doc[i].name),
         priority |-> py_string(doc[i].priority),
         completed |-> py_bool(doc[i].completed),
         created_at |-> py_string(doc[i].created_at),
         completed_at |-> py_optional(doc[i].completed_at),
         pomodoros_spent |-> py_number(doc[i].pomodoros_spent)]]

\* json.dump(self.sessions, f): one object per session dict
json_dump_sessions(sessions) ==
    [i \in 1..Len(sessions) |->
        [type |-> json_string(sessions[i].type),
         task |-> json_string(sessions[i].task),
         duration |-> json_number(sessions[i].duration),
         completed |-> json_bool(sessions[i].completed),
         timestamp |-> json_string(sessions[i].timestamp)]]

\* json.load(f) of a session file
json_load_sessions(doc) ==
    [i \in 1..Len(doc) |->
        [type |-> py_string(doc[i].type),
         task |-> py_string(doc[i].task),
         duration |-> py_number(doc[i].duration),
         completed |-> py_bool(doc[i].completed),
         timestamp |-> py_string(doc[i].timestamp)]]

_load_tasks(file) == json_load_tasks(load(file))

_load_sessions(file) == json_load_sessions(load(file))

DateOf(ts) == ts \div DayLen

\* --------------------------------------------------------- task registry
\* the task dict add_task builds
new_task(ts, task_name, priority, t) ==
    [id |-> Len(ts) + 1,
     name |-> task_name,
     priority |-> priority,
     completed |-> FALSE,
     created_at |-> t,
     completed_at |-> None,
     pomodoros_spent |-> 0]

add_task(ts, task_name, priority, t) == Append(ts, new_task(ts, task_name, priority, t))

\* mutant: the position one past the end passes the check
in_range_inclusive(ts, index) == 0 <= index /\ index <= Len(ts)

\* `if 0 <= index < len(self.tasks)`
in_range(ts, index) == 0 <= index /\ index < Len(ts)

get_pending_tasks(ts) == SelectSeq(ts, LAMBDA t : ~t.completed)

get_completed_tasks(ts) == SelectSeq(ts, LAMBDA t : t.completed)

\* Python positions are 0-based, TLA+ sequences 1-based
complete_task(ts, index, t) ==
    IF in_range(ts, index)
    THEN [ts EXCEPT ![index + 1].completed = TRUE,
                    ![index + 1].completed_at = Some(t)]
    ELSE ts

\* mutant: the completion time survives uncompleting
uncomplete_task_keeps_date(ts, index) ==
    IF in_range(ts, index)
    THEN [ts EXCEPT ![index + 1].completed = FALSE]
    ELSE ts

uncomplete_task(ts, index) ==
    IF in_range(ts, index)
    THEN [ts EXCEPT ![index + 1].completed = FALSE,
                    ![index + 1].completed_at = None]
    ELSE ts

\* mutant: pop() without the index drops the last task
delete_task_last(ts, index) ==
    IF in_range(ts, index)
    THEN SubSeq(ts, 1, Len(ts) - 1)
    ELSE ts

delete_task(ts, index) ==
    IF in_range(ts, index)
    THEN SubSeq(ts, 1, index) \o SubSeq(ts, index + 2, Len(ts))
    ELSE ts

edit_task(ts, index, new_name) ==
    IF in_range(ts, index)
    THEN [ts EXCEPT ![index + 1].name = new_name]
    ELSE ts

set_priority(ts, index, priority) ==
    IF in_range(ts, index) /\ priority \in Priorities
    THEN [ts EXCEPT ![index + 1].priority = priority]
    ELSE ts

\* the first task carrying the id, 0 when none does
first_with_id(ts, id) ==
    IF \E i \in 1..Len(ts) : ts[i].id = id
    THEN CHOOSE i \in 1..Len(ts) :
             ts[i].id = id /\ \A j \in 1..(i - 1) : ts[j].id # id
    ELSE 0

increment_pomodoro(ts, id) ==
    IF first_with_id(ts, id) = 0
    THEN ts
    ELSE [ts EXCEPT ![first_with_id(ts, id)].pomodoros_spent = @ + 1]

clear_completed_tasks(ts) == get_pending_tasks(ts)

\* list.sort is stable: position by (key, old position)
rank(keys, i) ==
    1 + Cardinality({j \in 1..Len(keys) :
                        keys[j] < keys[i] \/ (keys[j] = keys[i] /\ j < i)})

stable_sort(ts, keys) ==
    [k \in 1..Len(ts) |-> ts[CHOOSE i \in 1..Len(ts) : rank(keys, i) = k]]

priority_order(p) ==
    CASE p = "high" -> 0
      [] p = "medium" -> 1
      [] p = "low" -> 2
      [] OTHER -> 1

\* mutant: the key is the priority alone
priority_key_ignores_completed(t) == priority_order(t.priority)

\* key (completed, priority_order) compared as a tuple
priority_key(t) == (IF t.completed THEN 3 ELSE 0) + priority_order(t.priority)

sort_tasks_by_priority(ts) ==
    stable_sort(ts, [i \in 1..Len(ts) |-> priority_key(ts[i])])

\* reverse=True keeps the order of equal keys
sort_tasks_by_date(ts) ==
    stable_sort(ts, [i \in 1..Len(ts) |-> 0 - ts[i].created_at])

\* mutant: the list changes in memory and is never written
StoreTasks_memory_only(ts) ==
    /\ tasks' = ts
    /\ ~makedirs_raises
    /\ data_dir' = "present"
    /\ UNCHANGED tasks_file

\* every mutating method ends in self._save_tasks(): the change in memory,
\* _ensure_data_directory() returning, then the write
StoreTasks(ts) ==
    /\ tasks' = ts
    /\ ~makedirs_raises
    /\ data_dir' = "present"
    /\ tasks_file' \in save(tasks_file, json_dump_tasks(ts))

\* ------------------------------------------------------ statistics engine
is_completed_pomodoro(s) == s.type = "pomodoro" /\ s.completed

get_pomodoro_count(sessions) ==
    Len(SelectSeq(sessions, is_completed_pomodoro))

get_today_sessions(sessions, t) ==
    SelectSeq(sessions, LAMBDA s : DateOf(s.timestamp) = DateOf(t))

\* sum(s.get('duration', 0) for s in sessions if ...)
RECURSIVE total_seconds(_)
total_seconds(sessions) ==
    IF sessions = <<>> THEN 0
    ELSE (IF is_completed_pomodoro(Head(sessions)) THEN Head(sessions).duration ELSE 0)
         + total_seconds(Tail(sessions))

\* the f-strings of get_total_focus_time; // and % round towards minus
\* infinity, as \div and % do
get_total_focus_time(sessions) ==
    LET hours == total_seconds(sessions) \div 3600
        minutes == (total_seconds(sessions) % 3600) \div 60
    IN IF hours > 0
       THEN ToString(hours) \o "h " \o ToString(minutes) \o "m"
       ELSE ToString(minutes) \o "m"

\* "Get all unique dates with pomodoros"
pomodoro_dates(sessions) ==
    {DateOf(sessions[i].timestamp) :
        i \in {j \in 1..Len(sessions) : is_completed_pomodoro(sessions[j])}}

setMax(S) == CHOOSE m \in S : \A x \in S : x <= m

\* sorted(dates, reverse=True)
RECURSIVE sorted_reverse(_)
sorted_reverse(dates) ==
    IF dates = {} THEN <<>>
    ELSE <<setMax(dates)>> \o sorted_reverse(dates \ {setMax(dates)})

\* the for loop of get_streak from position i on
RECURSIVE streak_loop(_, _, _, _)
streak_loop(sorted_dates, i, current_date, streak) ==
    IF i > Len(sorted_dates) THEN streak
    ELSE IF sorted_dates[i] = current_date
         THEN streak_loop(sorted_dates, i + 1, current_date - 1, streak + 1)
         ELSE streak

\* mutant: the walk starts at the latest day with a pomodoro, not at today
get_streak_from_latest(sessions, t) ==
    IF sessions = <<>> THEN 0
    ELSE IF pomodoro_dates(sessions) = {} THEN 0
    ELSE streak_loop(sorted_reverse(pomodoro_dates(sessions)), 1,
                     setMax(pomodoro_dates(sessions)), 0)

get_streak(sessions, t) ==
    IF sessions = <<>> THEN 0
    ELSE IF pomodoro_dates(sessions) = {} THEN 0
    ELSE streak_loop(sorted_reverse(pomodoro_dates(sessions)), 1, DateOf(t), 0)

\* daily_counts' keys: the dates of completed pomodoros in the order the
\* loop meets them first (a dict keeps insertion order)
RECURSIVE daily_keys(_)
daily_keys(sessions) ==
    IF sessions = <<>> THEN <<>>
    ELSE LET before == daily_keys(SubSeq(sessions, 1, Len(sessions) - 1))
             s == sessions[Len(sessions)]
         IN IF /\ is_completed_pomodoro(s)
               /\ \A i \in 1..Len(before) : before[i] # DateOf(s.timestamp)
            THEN Append(before, DateOf(s.timestamp))
            ELSE before

\* daily_counts[date]
daily_count(sessions, date) ==
    Len(SelectSeq(sessions,
                  LAMBDA s : is_completed_pomodoro(s) /\ DateOf(s.timestamp) = date))

\* max(daily_counts, key=daily_counts.get) from position i on: the key held
\* is replaced only by one with a strictly larger count
RECURSIVE max_by_count(_, _, _, _)
max_by_count(sessions, keys, i, best) ==
    IF i > Len(keys) THEN best
    ELSE IF daily_count(sessions, keys[i]) > daily_count(sessions, best)
         THEN max_by_count(sessions, keys, i + 1, keys[i])
         ELSE max_by_count(sessions, keys, i + 1, best)

\* best_date.strftime('%A, %B %d, %Y'): the date, written out
strftime(date) == <<"%A, %B %d, %Y", date>>

\* mutant: among the dates with the largest count the latest one is taken
get_best_day_latest_date(sessions) ==
    IF sessions = <<>> THEN None
    ELSE IF daily_keys(sessions) = <<>> THEN None
    ELSE LET best_date ==
                 setMax({d \in pomodoro_dates(sessions) :
                            \A e \in pomodoro_dates(sessions) :
                                daily_count(sessions, e) <= daily_count(sessions, d)})
         IN Some([date |-> strftime(best_date),
                  pomodoros |-> daily_count(sessions, best_date)])

get_best_day(sessions) ==
    IF sessions = <<>> THEN None
    ELSE IF daily_keys(sessions) = <<>> THEN None
    ELSE LET best_date ==
                 max_by_count(sessions, daily_keys(sessions), 2, daily_keys(sessions)[1])
         IN Some([date |-> strftime(best_date),
                  pomodoros |-> daily_count(sessions, best_date)])

NotShown ==
    [viewed |-> FALSE, today_pomodoros |-> 0, total_pomodoros |-> 0,
     total_focus_time |-> "", streak |-> 0, best_day |-> None]

\* the stats_data display_stats reads off self.sessions
display_stats(sessions, t) ==
    [viewed |-> TRUE,
     today_pomodoros |-> get_pomodoro_count(get_today_sessions(sessions, t)),
     total_pomodoros |-> get_pomodoro_count(sessions),
     total_focus_time |-> get_total_focus_time(sessions),
     streak |-> get_streak(sessions, t),
     best_day |-> get_best_day(sessions)]

\* mutant: the log is replaced by the new record instead of extended
add_session_overwrite(session_data) ==
    /\ timer_sessions' = <<session_data>>
    /\ ~makedirs_raises
    /\ data_dir' = "present"
    /\ sessions_file' \in save(sessions_file, json_dump_sessions(timer_sessions'))

\* Stats.add_session: append, then _save_sessions
add_session(session_data) ==
    /\ timer_sessions' = Append(timer_sessions, session_data)
    /\ ~makedirs_raises
    /\ data_dir' = "present"
    /\ sessions_file' \in save(sessions_file, json_dump_sessions(timer_sessions'))

\* Stats.clear_all_stats: empty the log, then _save_sessions
clear_all_stats ==
    /\ timer_sessions' = <<>>
    /\ ~makedirs_raises
    /\ data_dir' = "present"
    /\ sessions_file' \in save(sessions_file, json_dump_sessions(timer_sessions'))

\* ------------------------------------------------------------------ timer
\* mutant: the record carries the default duration, not the configured one
session_data_default_duration(t, duration, ts) ==
    [type |-> "pomodoro",
     task |-> IF t = None THEN "General work" ELSE t[1].name,
     duration |-> DefaultPomodoroDuration,
     completed |-> TRUE,
     timestamp |-> ts]

\* the dict start_pomodoro hands to add_session
session_data(t, duration, ts) ==
    [type |-> "pomodoro",
     task |-> IF t = None THEN "General work" ELSE t[1].name,
     duration |-> duration,
     completed |-> TRUE,
     timestamp |-> ts]

\* mutant: the break is chosen from the count before the increment
break_for_stale_count(count) ==
    IF (count - 1) % pomodoros_until_long_break = 0 THEN "long" ELSE "short"

\* "Determine break type"
break_for(count) ==
    IF count % pomodoros_until_long_break = 0 THEN "long" ELSE "short"

\* the dict get_stats_summary returns
get_stats_summary(count) ==
    [pomodoros_today |-> count,
     next_break |-> IF count % pomodoros_until_long_break = 0 THEN "long" ELSE "short"]

\* the count has reached a positive multiple of pomodoros_until_long_break
multiple_of_n(count) == count > 0 /\ count % pomodoros_until_long_break = 0

\* mutant: the long-break branch is lost
break_prompt_always_short(kind) == "short_prompt"

break_prompt(kind) == IF kind = "long" THEN "long_prompt" ELSE "short_prompt"

break_duration(kind) ==
    IF kind = "short" THEN short_break_duration ELSE long_break_duration

\* mutant: only an explicit "n" discards the session
mark_complete_unless_n(answer) == answer # "n"

mark_complete(answer) == answer = "y"

\* mutant: only an explicit "n" declines the next pomodoro
start_another_unless_n(answer) == answer # "n"

\* "Start another pomodoro? (y/n)"
start_another(answer) == answer = "y"

\* the frame is gone: its locals with it
DropLocals ==
    /\ depth' = 0
    /\ frame_logged' = FALSE
    /\ task' = None
    /\ choice' = NoChoice
    /\ break_type' = NoBreak
    /\ cd_duration' = 0

\* mutant: the countdown is started with the default duration
EnterPomodoro_default_countdown(t) ==
    /\ depth' = depth + 1
    /\ frame_logged' = FALSE
    /\ task' = t
    /\ last_notification' = "Pomodoro Started!"
    /\ cd_duration' = DefaultPomodoroDuration
    /\ pc' = "pomodoro"

\* start_pomodoro up to the pomodoro countdown
EnterPomodoro(t) ==
    /\ depth' = depth + 1
    /\ frame_logged' = FALSE
    /\ task' = t
    /\ last_notification' = "Pomodoro Started!"
    /\ cd_duration' = pomodoro_duration
    /\ pc' = "pomodoro"

\* the `if completed:` block up to the break prompt
PomodoroExpire ==
    /\ pc = "pomodoro"
    /\ current_pomodoros' = current_pomodoros + 1
    /\ add_session(session_data(task, pomodoro_duration, now))
    /\ last_notification' = "Pomodoro Complete!"
    /\ pc' = break_prompt(break_for(current_pomodoros'))
    /\ long_due' = IF multiple_of_n(current_pomodoros') THEN "expired" ELSE long_due
    /\ frame_logged' = TRUE
    /\ UNCHANGED <<depth, task, choice, break_type, cd_duration, settings,
                   stats_sessions, registry, now, disk, result, message, shown, countdown>>

\* the same block when add_session's _ensure_data_directory() raises: the
\* count and the log have changed, the OSError passes start_pomodoro's
\* `except KeyboardInterrupt` and main()'s, and the process dies
PomodoroExpireRaises ==
    /\ pc = "pomodoro"
    /\ makedirs_raises
    /\ current_pomodoros' = current_pomodoros + 1
    /\ timer_sessions' = Append(timer_sessions, session_data(task, pomodoro_duration, now))
    /\ DropLocals
    /\ pc' = "crashed"
    /\ UNCHANGED <<settings, sessions_file, stats_sessions, data_dir, registry, now, disk,
                   result, message, last_notification, shown, long_due, countdown>>

\* Ctrl+C while the pomodoro countdown sleeps: into the except block
PomodoroInterrupt ==
    /\ pc = "pomodoro"
    /\ cd_duration > 0
    /\ pc' = "paused"
    /\ UNCHANGED <<timerLocals, settings, current_pomodoros, sessionLog,
                   stats_sessions, data_dir, registry, now, disk, result, message, last_notification, shown, long_due, countdown>>

\* ENTER at "Press ENTER to start ... break": start_break up to its countdown
StartBreak ==
    /\ pc \in {"long_prompt", "short_prompt"}
    /\ break_type' = IF pc = "long_prompt" THEN "long" ELSE "short"
    /\ cd_duration' = break_duration(break_type')
    /\ pc' = "break"
    /\ long_due' = IF break_type' = "long" THEN "no" ELSE long_due
    /\ UNCHANGED <<depth, frame_logged, task, choice, settings, current_pomodoros, sessionLog,
                   stats_sessions, data_dir, registry, now, disk, result, message, last_notification, shown,
                   countdown>>

\* mutant: a finished break is logged as a session and counted
BreakExpire_logged ==
    /\ pc = "break"
    /\ last_notification' = "Break Over!"
    /\ pc' = "break_done"
    /\ current_pomodoros' = current_pomodoros + 1
    /\ add_session([type |-> IF break_type = "short" THEN "short_break" ELSE "long_break",
                    task |-> "General work",
                    duration |-> cd_duration,
                    completed |-> TRUE,
                    timestamp |-> now])
    /\ UNCHANGED <<timerLocals, settings, stats_sessions, registry, now, disk, result, message,
                   shown, long_due, countdown>>

\* the break countdown returns True
BreakExpire ==
    /\ pc = "break"
    /\ last_notification' = "Break Over!"
    /\ pc' = "break_done"
    /\ UNCHANGED <<timerLocals, settings, current_pomodoros, sessionLog,
                   stats_sessions, data_dir, registry, now, disk, result, message, shown, long_due, countdown>>

\* mutant: the except block fires the "Break Over!" notification too
BreakInterrupt_notifies ==
    /\ \/ pc = "break" /\ cd_duration > 0
       \/ pc = "break_done"
    /\ pc' = "break_interrupted"
    /\ last_notification' = "Break Over!"
    /\ UNCHANGED <<timerLocals, settings, current_pomodoros, sessionLog,
                   stats_sessions, data_dir, registry, now, disk, result, message, shown, long_due, countdown>>

\* Ctrl+C during the break: start_break's except block
BreakInterrupt ==
    /\ \/ pc = "break" /\ cd_duration > 0
       \/ pc = "break_done"
    /\ pc' = "break_interrupted"
    /\ UNCHANGED <<timerLocals, settings, current_pomodoros, sessionLog,
                   stats_sessions, data_dir, registry, now, disk, result, message, last_notification, shown, long_due, countdown>>

\* ENTER at start_break's last prompt: back in start_pomodoro, which asks
BreakReturn ==
    /\ pc \in {"break_done", "break_interrupted"}
    /\ break_type' = NoBreak
    /\ cd_duration' = 0
    /\ pc' = "another"
    /\ UNCHANGED <<depth, frame_logged, task, choice, settings, current_pomodoros, sessionLog,
                   stats_sessions, data_dir, registry, now, disk, result, message, last_notification, shown, long_due, countdown>>

\* "Start another pomodoro? (y/n)"
AnswerAnother(limit) ==
    /\ pc = "another"
    /\ \E answer \in Answers :
         /\ IF start_another(answer)
            THEN /\ depth < MaxDepth
                 /\ current_pomodoros < limit
                 /\ choice' = answer
                 /\ EnterPomodoro(task)
                 /\ UNCHANGED break_type
            ELSE /\ DropLocals
                 /\ pc' = "menu"
                 /\ UNCHANGED last_notification
    /\ UNCHANGED <<settings, current_pomodoros, sessionLog, stats_sessions, data_dir,
                   registry, now, disk, result, message, shown, long_due, countdown>>

\* Ctrl+C at a prompt of start_pomodoro's try block, or out of start_break's
\* except block: start_pomodoro's except block
PromptInterrupt ==
    /\ pc \in {"long_prompt", "short_prompt", "another", "break_interrupted"}
    /\ break_type' = NoBreak
    /\ cd_duration' = 0
    /\ pc' = "paused"
    /\ long_due' = IF pc = "long_prompt" /\ long_due = "expired" THEN "cancelled" ELSE long_due
    /\ UNCHANGED <<depth, frame_logged, task, choice, settings, current_pomodoros, sessionLog,
                   stats_sessions, data_dir, registry, now, disk, result, message, last_notification, shown,
                   countdown>>

\* mutant: a session marked complete is recorded but not counted
AnswerPaused_uncounted ==
    /\ pc = "paused"
    /\ \E answer \in Answers :
         /\ choice' = answer
         /\ IF mark_complete(answer)
            THEN /\ current_pomodoros' = current_pomodoros
                 /\ add_session(session_data(task, pomodoro_duration, now))
                 /\ long_due' = IF multiple_of_n(current_pomodoros')
                                 THEN "confirmed" ELSE long_due
                 /\ frame_logged' = TRUE
            ELSE UNCHANGED <<current_pomodoros, sessionLog, data_dir, long_due, frame_logged>>
    /\ pc' = "return_prompt"
    /\ UNCHANGED <<depth, task, break_type, cd_duration, settings, stats_sessions,
                   registry, now, disk, result, message, last_notification, shown, countdown>>

\* "Do you want to mark this session as complete? (y/n)"
AnswerPaused ==
    /\ pc = "paused"
    /\ \E answer \in Answers :
         /\ choice' = answer
         /\ IF mark_complete(answer)
            THEN /\ current_pomodoros' = current_pomodoros + 1
                 /\ add_session(session_data(task, pomodoro_duration, now))
                 /\ long_due' = IF multiple_of_n(current_pomodoros')
                                 THEN "confirmed" ELSE long_due
                 /\ frame_logged' = TRUE
            ELSE UNCHANGED <<current_pomodoros, sessionLog, data_dir, long_due, frame_logged>>
    /\ pc' = "return_prompt"
    /\ UNCHANGED <<depth, task, break_type, cd_duration, settings, stats_sessions,
                   registry, now, disk, result, message, last_notification, shown, countdown>>

\* ENTER at "Press ENTER to return to menu...": every frame returns
ReturnToMenu ==
    /\ pc = "return_prompt"
    /\ DropLocals
    /\ pc' = "menu"
    /\ UNCHANGED <<settings, current_pomodoros, sessionLog, stats_sessions, data_dir,
                   registry, now, disk, result, message, last_notification, shown, long_due, countdown>>

\* Ctrl+C inside the except block leaves the frame: the caller's try block
\* catches it, or it reaches __main__ and the process ends
HandlerInterrupt ==
    /\ pc \in {"paused", "return_prompt"}
    /\ IF depth > 1
       THEN /\ depth' = depth - 1
            /\ choice' = "y"
            /\ pc' = "paused"
            /\ frame_logged' = TRUE
            /\ UNCHANGED <<task, break_type, cd_duration>>
       ELSE /\ DropLocals
            /\ pc' = "exited"
    /\ UNCHANGED <<settings, current_pomodoros, sessionLog, stats_sessions, data_dir,
                   registry, now, disk, result, message, last_notification, shown, long_due, countdown>>

\* -------------------------------------------------------------- main menu
\* menu "1": start_timer_menu lists the pending tasks, if any
ChooseTimer(limit) ==
    /\ pc = "menu"
    /\ current_pomodoros < limit
    /\ task' = None
    /\ pc' = IF get_pending_tasks(tasks) = <<>> THEN "start_prompt" ELSE "select_task"
    /\ UNCHANGED <<depth, frame_logged, choice, break_type, cd_duration, settings,
                   current_pomodoros, sessionLog, stats_sessions, data_dir, registry, now, disk, result, message,
                   last_notification, shown, long_due, countdown>>

\* "Select task to work on": a number, or anything else (0) that the bare
\* except turns into "no task"
SelectTask ==
    /\ pc = "select_task"
    /\ \E number \in 0..(Len(get_pending_tasks(tasks)) + 1) :
         task' = IF 1 <= number /\ number <= Len(get_pending_tasks(tasks))
                 THEN Some(get_pending_tasks(tasks)[number])
                 ELSE None
    /\ pc' = "start_prompt"
    /\ UNCHANGED <<depth, frame_logged, choice, break_type, cd_duration, settings,
                   current_pomodoros, sessionLog, stats_sessions, data_dir, registry, now, disk, result, message,
                   last_notification, shown, long_due, countdown>>

\* ENTER at "Press ENTER to start timer...": timer.start_pomodoro(selected_task)
PressStart ==
    /\ pc = "start_prompt"
    /\ EnterPomodoro(task)
    /\ UNCHANGED <<choice, break_type, settings, current_pomodoros, sessionLog,
                   stats_sessions, data_dir, registry, now, disk, result, message, shown, long_due, countdown>>

\* menu "3": view_stats_menu(stats) reads main()'s own Stats object
ViewStats ==
    /\ pc = "menu"
    /\ shown' = display_stats(stats_sessions, now)
    /\ pc' = "stats_view"
    /\ UNCHANGED <<timerLocals, settings, current_pomodoros, sessionLog,
                   stats_sessions, data_dir, registry, now, disk, result, message, last_notification, long_due, countdown>>

LeaveStats ==
    /\ pc = "stats_view"
    /\ shown' = NotShown
    /\ pc' = "menu"
    /\ UNCHANGED <<timerLocals, settings, current_pomodoros, sessionLog,
                   stats_sessions, data_dir, registry, now, disk, result, message, last_notification, long_due, countdown>>

\* clear_all_stats() called on the timer's log between two menu choices
ClearAllStats ==
    /\ pc = "menu"
    /\ clear_all_stats
    /\ UNCHANGED <<pc, timerLocals, settings, current_pomodoros, stats_sessions,
                   registry, now, disk, result, message, last_notification, shown, long_due, countdown>>

\* menu "4" and "5" of the settings menu
OpenSettings ==
    /\ pc = "menu"
    /\ pc' = "settings_menu"
    /\ UNCHANGED <<timerLocals, settings, current_pomodoros, sessionLog,
                   stats_sessions, data_dir, registry, now, disk, result, message, last_notification, shown, long_due, countdown>>

LeaveSettings ==
    /\ pc = "settings_menu"
    /\ pc' = "menu"
    /\ UNCHANGED <<timerLocals, settings, current_pomodoros, sessionLog,
                   stats_sessions, data_dir, registry, now, disk, result, message, last_notification, shown, long_due, countdown>>

SetPomodoroDuration ==
    /\ pc = "settings_menu"
    /\ \E minutes \in MinuteInputs : pomodoro_duration' = minutes * SecondsPerMinute
    /\ UNCHANGED <<pc, timerLocals, short_break_duration, long_break_duration,
                   current_pomodoros, sessionLog, stats_sessions, data_dir, registry, now, disk, result, message,
                   last_notification, shown, long_due, countdown>>

SetShortBreakDuration ==
    /\ pc = "settings_menu"
    /\ \E minutes \in MinuteInputs : short_break_duration' = minutes * SecondsPerMinute
    /\ UNCHANGED <<pc, timerLocals, pomodoro_duration, long_break_duration,
                   current_pomodoros, sessionLog, stats_sessions, data_dir, registry, now, disk, result, message,
                   last_notification, shown, long_due, countdown>>

SetLongBreakDuration ==
    /\ pc = "settings_menu"
    /\ \E minutes \in MinuteInputs : long_break_duration' = minutes * SecondsPerMinute
    /\ UNCHANGED <<pc, timerLocals, pomodoro_duration, short_break_duration,
                   current_pomodoros, sessionLog, stats_sessions, data_dir, registry, now, disk, result, message,
                   last_notification, shown, long_due, countdown>>

\* mutant: only the pomodoro duration goes back to its default
reset_to_default_pomodoro_only ==
    /\ pomodoro_duration' = DefaultPomodoroDuration
    /\ UNCHANGED <<short_break_duration, long_break_duration>>

\* PomodoroTimer.reset_to_default
reset_to_default ==
    /\ pomodoro_duration' = DefaultPomodoroDuration
    /\ short_break_duration' = DefaultShortBreakDuration
    /\ long_break_duration' = DefaultLongBreakDuration

ResetSettings ==
    /\ pc = "settings_menu"
    /\ reset_to_default
    /\ UNCHANGED <<pc, timerLocals, current_pomodoros, sessionLog, stats_sessions, data_dir,
                   registry, now, disk, result, message, last_notification, shown, long_due, countdown>>

\* menu "2" and the task menu's "5"
OpenTasks ==
    /\ pc = "menu"
    /\ pc' = "task_menu"
    /\ UNCHANGED <<timerLocals, settings, current_pomodoros, sessionLog,
                   stats_sessions, data_dir, registry, now, disk, result, message,
                   last_notification, shown, long_due, countdown>>

\* back in main()'s loop the screen is cleared
LeaveTasks ==
    /\ pc = "task_menu"
    /\ pc' = "menu"
    /\ message' = "none"
    /\ UNCHANGED <<timerLocals, settings, current_pomodoros, sessionLog,
                   stats_sessions, data_dir, registry, now, disk, result,
                   last_notification, shown, long_due, countdown>>

TaskMenuFrame ==
    UNCHANGED <<pc, timerLocals, settings, current_pomodoros, sessionLog,
                stats_sessions, now, disk, result, last_notification, shown,
                long_due, countdown>>

\* task menu "2": add_task(task_name) with the default priority
MenuAddTask ==
    /\ pc = "task_menu"
    /\ Len(tasks) < MaxTasks
    /\ \E task_name \in TaskNames :
         StoreTasks(add_task(tasks, task_name, "medium", now))
    /\ message' = "success"
    /\ TaskMenuFrame

\* task menu "2" with nothing typed: "Task name cannot be empty!"
MenuAddEmptyName ==
    /\ pc = "task_menu"
    /\ message' = "error"
    /\ UNCHANGED <<registry, data_dir>>
    /\ TaskMenuFrame

\* task menu "2" when _save_tasks' _ensure_data_directory() raises: the task
\* is in the list, nothing in manage_tasks_menu catches, the process dies
MenuAddTaskRaises ==
    /\ pc = "task_menu"
    /\ Len(tasks) < MaxTasks
    /\ makedirs_raises
    /\ \E task_name \in TaskNames :
         tasks' = add_task(tasks, task_name, "medium", now)
    /\ pc' = "crashed"
    /\ UNCHANGED <<timerLocals, settings, current_pomodoros, sessionLog, stats_sessions,
                   data_dir, tasks_file, now, disk, result, message, last_notification,
                   shown, long_due, countdown>>

\* what the try block of "3" and "4" prints after the registry call: the
\* call's return value is dropped, so "success" whenever it returns; an
\* OSError out of _ensure_data_directory() lands in the bare except
menu_outcome(ts) ==
    IF makedirs_raises
    THEN /\ tasks' = ts
         /\ UNCHANGED <<tasks_file, data_dir>>
         /\ message' = "error"
    ELSE /\ StoreTasks(ts)
         /\ message' = "success"

\* task menu "3" with a number typed: complete_task(task_id - 1)
MenuCompleteNumber(task_id) ==
    /\ pc = "task_menu"
    /\ IF in_range(tasks, task_id - 1)
       THEN menu_outcome(complete_task(tasks, task_id - 1, now))
       ELSE /\ UNCHANGED <<registry, data_dir>>
            /\ message' = "success"
    /\ TaskMenuFrame

\* task menu "3" or "4" with anything else typed: int() raises ValueError,
\* the bare except prints "Invalid task number!"
MenuNotANumber ==
    /\ pc = "task_menu"
    /\ message' = "error"
    /\ UNCHANGED <<registry, data_dir>>
    /\ TaskMenuFrame

MenuCompleteTask ==
    \E task_id \in 0..(Len(tasks) + 1) : MenuCompleteNumber(task_id)

\* task menu "4" with a number typed: delete_task(task_id - 1)
MenuDeleteNumber(task_id) ==
    /\ pc = "task_menu"
    /\ IF in_range(tasks, task_id - 1)
       THEN menu_outcome(delete_task(tasks, task_id - 1))
       ELSE /\ UNCHANGED <<registry, data_dir>>
            /\ message' = "success"
    /\ TaskMenuFrame

MenuDeleteTask ==
    \E task_id \in 0..(Len(tasks) + 1) : MenuDeleteNumber(task_id)

\* timer.get_stats_summary() called while the timer is idle
GetStatsSummary ==
    /\ pc = "menu"
    /\ result' = Returned(get_stats_summary(current_pomodoros))
    /\ UNCHANGED <<pc, timerLocals, settings, current_pomodoros, sessionLog, stats_sessions,
                   data_dir, registry, now, disk, message, last_notification, shown,
                   long_due, countdown>>

\* menu "5": sys.exit(0)
Exit ==
    /\ pc = "menu"
    /\ pc' = "exited"
    /\ UNCHANGED <<timerLocals, settings, current_pomodoros, sessionLog,
                   stats_sessions, data_dir, registry, now, disk, result, message, last_notification, shown, long_due, countdown>>

\* Ctrl+C at a prompt outside start_pomodoro reaches __main__: "Goodbye!"
MenuInterrupt ==
    /\ pc \in {"menu", "task_menu", "settings_menu", "stats_view", "start_prompt"}
    /\ task' = None
    /\ shown' = NotShown
    /\ pc' = "exited"
    /\ UNCHANGED <<depth, frame_logged, choice, break_type, cd_duration, settings,
                   current_pomodoros, sessionLog, stats_sessions, data_dir, registry, now, disk, result, message,
                   last_notification, long_due, countdown>>

\* time passes while the process waits
ClockTick ==
    /\ pc \in {"menu", "pomodoro", "break"}
    /\ now < MaxNow
    /\ now' = now + 1
    /\ UNCHANGED <<pc, timerLocals, settings, current_pomodoros, sessionLog,
                   stats_sessions, data_dir, registry, disk, result, message, last_notification, shown, long_due, countdown>>

\* ------------------------------------------- the registry's other methods
\* each is called with any argument; positions run one past both ends
Positions == (0 - 1)..Len(tasks)

RegistryFrame ==
    UNCHANGED <<message, pc, timerLocals, settings, current_pomodoros, sessionLog,
                stats_sessions, now, disk, last_notification, shown, long_due, countdown>>

\* add_task(task_name, priority): returns the new task dict
AddTaskNamed(task_name, priority) ==
    /\ Len(tasks) < MaxTasks
    /\ StoreTasks(add_task(tasks, task_name, priority, now))
    /\ result' = Returned(new_task(tasks, task_name, priority, now))
    /\ RegistryFrame

AddTask ==
    \E task_name \in TaskNames, priority \in PriorityInputs \cup {"medium"} :
        AddTaskNamed(task_name, priority)

CompleteTaskAt(index) ==
    /\ IF in_range(tasks, index)
       THEN /\ StoreTasks(complete_task(tasks, index, now))
            /\ result' = PyTrue
       ELSE /\ UNCHANGED <<registry, data_dir>>
            /\ result' = PyFalse
    /\ RegistryFrame

CompleteTask == \E index \in Positions : CompleteTaskAt(index)

UncompleteTaskAt(index) ==
    /\ IF in_range(tasks, index)
       THEN /\ StoreTasks(uncomplete_task(tasks, index))
            /\ result' = PyTrue
       ELSE /\ UNCHANGED <<registry, data_dir>>
            /\ result' = PyFalse
    /\ RegistryFrame

UncompleteTask == \E index \in Positions : UncompleteTaskAt(index)

\* delete_task(index): returns the popped task, or None
DeleteTaskAt(index) ==
    /\ IF in_range(tasks, index)
       THEN /\ StoreTasks(delete_task(tasks, index))
            /\ result' = Returned(tasks[index + 1])
       ELSE /\ UNCHANGED <<registry, data_dir>>
            /\ result' = None
    /\ RegistryFrame

DeleteTask == \E index \in Positions : DeleteTaskAt(index)

EditTaskAt(index, new_name) ==
    /\ IF in_range(tasks, index)
       THEN /\ StoreTasks(edit_task(tasks, index, new_name))
            /\ result' = PyTrue
       ELSE /\ UNCHANGED <<registry, data_dir>>
            /\ result' = PyFalse
    /\ RegistryFrame

EditTask == \E index \in Positions, new_name \in TaskNames : EditTaskAt(index, new_name)

SetPriorityAt(index, priority) ==
    /\ IF in_range(tasks, index) /\ priority \in Priorities
       THEN /\ StoreTasks(set_priority(tasks, index, priority))
            /\ result' = PyTrue
       ELSE /\ UNCHANGED <<registry, data_dir>>
            /\ result' = PyFalse
    /\ RegistryFrame

SetPriority ==
    \E index \in Positions, priority \in PriorityInputs : SetPriorityAt(index, priority)

\* the argument is a task dict: only its id is read; nothing is returned
IncrementPomodoroOf(id) ==
    /\ first_with_id(tasks, id) # 0 =>
           tasks[first_with_id(tasks, id)].pomodoros_spent < MaxSpent
    /\ IF first_with_id(tasks, id) # 0
       THEN StoreTasks(increment_pomodoro(tasks, id))
       ELSE UNCHANGED <<registry, data_dir>>
    /\ result' = None
    /\ RegistryFrame

IncrementPomodoro == \E id \in 1..(MaxTasks + 1) : IncrementPomodoroOf(id)

ClearCompletedTasks ==
    /\ StoreTasks(clear_completed_tasks(tasks))
    /\ result' = None
    /\ RegistryFrame

ClearAllTasks ==
    /\ StoreTasks(<<>>)
    /\ result' = None
    /\ RegistryFrame

SortTasksByPriority ==
    /\ StoreTasks(sort_tasks_by_priority(tasks))
    /\ result' = None
    /\ RegistryFrame

SortTasksByDate ==
    /\ StoreTasks(sort_tasks_by_date(tasks))
    /\ result' = None
    /\ RegistryFrame

\* ------------------------------------------------------------ environment
\* writes under data/ start to fail (disk full, permissions) and recover
DiskFails ==
    /\ disk = "ok"
    /\ disk' = "failing"
    /\ UNCHANGED <<pc, timerLocals, settings, current_pomodoros, sessionLog,
                   stats_sessions, data_dir, registry, now, result, message, last_notification, shown, long_due, countdown>>

DiskRecovers ==
    /\ disk = "failing"
    /\ disk' = "ok"
    /\ UNCHANGED <<pc, timerLocals, settings, current_pomodoros, sessionLog,
                   stats_sessions, data_dir, registry, now, result, message, last_notification, shown, long_due, countdown>>

\* data/ is removed under the running program, the two files with it
DataDirLost ==
    /\ data_dir = "present"
    /\ pc \notin {"exited", "crashed"}
    /\ data_dir' = "absent"
    /\ sessions_file' = FileAbsent
    /\ tasks_file' = FileAbsent
    /\ UNCHANGED <<pc, timerLocals, settings, current_pomodoros, timer_sessions,
                   stats_sessions, tasks, now, disk, result, message, last_notification, shown,
                   long_due, countdown>>

\* -------------------------------------------------------------- countdown
\* the loop of countdown(), one clock reading at a time
\* clock ticks that may pass between two statements: less than a second
MaxGap == TicksPerSecond - 1

\* durations countdown() is called with, in seconds
Durations == (0 - 1)..MaxSeconds

\* mutant: rounds down instead of towards zero
int_floor(ticks) == ticks \div TicksPerSecond

\* int(x) of a time difference: truncation towards zero, in whole seconds
int(ticks) ==
    IF ticks >= 0 THEN ticks \div TicksPerSecond
    ELSE 0 - ((0 - ticks) \div TicksPerSecond)

\* mutant: the loop runs while the deadline is not passed
before_deadline_inclusive(t, deadline) == t <= deadline

\* while time.time() < end_time
before_deadline(t, deadline) == t < deadline

CountdownFrame ==
    UNCHANGED <<pc, depth, frame_logged, task, choice, break_type, settings, current_pomodoros,
                sessionLog, stats_sessions, data_dir, registry, now, disk, result, message, last_notification,
                shown, long_due>>

\* countdown(duration, ...): start_time and end_time are fixed
CountdownCall ==
    /\ cd_pc = "idle"
    /\ \E duration \in Durations :
         /\ cd_duration' = duration
         /\ end_time' = clock + duration * TicksPerSecond
    /\ start_time' = clock
    /\ cd_returns' = 0
    /\ cd_pc' = "test"
    /\ UNCHANGED <<clock, remaining>>
    /\ CountdownFrame

\* the loop test reads the clock; past the deadline, return True
CountdownTest ==
    /\ cd_pc = "test"
    /\ IF before_deadline(clock, end_time)
       THEN /\ cd_pc' = "body"
            /\ UNCHANGED cd_returns
       ELSE /\ cd_pc' = "returned"
            /\ cd_returns' = cd_returns + 1
    /\ UNCHANGED <<cd_duration, clock, start_time, end_time, remaining>>
    /\ CountdownFrame

\* remaining = int(end_time - time.time()): a second reading, a moment later
CountdownBody ==
    /\ cd_pc = "body"
    /\ \E gap \in 0..MaxGap :
         /\ clock' = clock + gap
         /\ remaining' = int(end_time - clock')
    /\ cd_pc' = "sleep"
    /\ UNCHANGED <<cd_duration, start_time, end_time, cd_returns>>
    /\ CountdownFrame

\* time.sleep(1), then back to the loop test
CountdownSleep ==
    /\ cd_pc = "sleep"
    /\ clock' = clock + TicksPerSecond
    /\ cd_pc' = "test"
    /\ UNCHANGED <<cd_duration, start_time, end_time, remaining, cd_returns>>
    /\ CountdownFrame

\* Ctrl+C while sleeping: KeyboardInterrupt leaves countdown()
CountdownInterrupt ==
    /\ cd_pc = "sleep"
    /\ cd_pc' = "raised"
    /\ UNCHANGED <<cd_duration, clock, start_time, end_time, remaining, cd_returns>>
    /\ CountdownFrame

\* ------------------------------------------------------------------- Init
\* what earlier runs may have left under data/
OldSession == session_data(None, DefaultPomodoroDuration, 0)

OldTask == new_task(<<>>, "a", "medium", 0)

InitialSessionFiles ==
    {FileAbsent, FileCorrupt, FileOk(json_dump_sessions(<<OldSession>>))}

InitialTaskFiles ==
    {FileAbsent, FileCorrupt, FileOk(json_dump_tasks(<<OldTask>>))}

\* the objects main() builds, but for what they load
Defaults ==
    /\ depth = 0
    /\ frame_logged = FALSE
    /\ task = None
    /\ choice = NoChoice
    /\ break_type = NoBreak
    /\ cd_duration = 0
    /\ pomodoro_duration = DefaultPomodoroDuration
    /\ short_break_duration = DefaultShortBreakDuration
    /\ long_break_duration = DefaultLongBreakDuration
    /\ current_pomodoros = 0
    /\ last_notification = "none"
    /\ shown = NotShown
    /\ long_due = "no"
    /\ cd_pc = "idle"
    /\ clock = 0
    /\ start_time = 0
    /\ end_time = 0
    /\ remaining = 0
    /\ cd_returns = 0
    /\ result = None
    /\ message = "none"

\* main(): PomodoroTimer(), TaskManager(), Stats() over the files found
ProcessStart ==
    /\ pc = "menu"
    /\ data_dir = "present"
    /\ timer_sessions = _load_sessions(sessions_file)
    /\ stats_sessions = _load_sessions(sessions_file)
    /\ tasks = _load_tasks(tasks_file)
    /\ Defaults

Init ==
    /\ sessions_file \in InitialSessionFiles
    /\ tasks_file \in InitialTaskFiles
    /\ now = 0
    /\ disk = "ok"
    /\ ProcessStart

\* the program has not run yet in this working directory, which may be one
\* it cannot write to
InitFirstRun ==
    /\ pc = "exited"
    /\ data_dir = "absent"
    /\ sessions_file = FileAbsent
    /\ tasks_file = FileAbsent
    /\ timer_sessions = <<>>
    /\ stats_sessions = <<>>
    /\ tasks = <<>>
    /\ now = 0
    /\ disk \in {"ok", "failing"}
    /\ Defaults

\* session logs earlier runs may have stored: per calendar day nothing, a
\* completed pomodoro, a break, an uncompleted pomodoro, or the last and a
\* completed one
Days == 0..MaxDay

DayKinds == {"none", "pomodoro", "break", "uncompleted", "both"}

Break(ts) ==
    [type |-> "short_break", task |-> "General work",
     duration |-> DefaultShortBreakDuration, completed |-> TRUE, timestamp |-> ts]

Uncompleted(ts) ==
    [type |-> "pomodoro", task |-> "General work",
     duration |-> DefaultPomodoroDuration, completed |-> FALSE, timestamp |-> ts]

\* a day's records: the completed pomodoro is stamped at the day's last
\* tick, or at t when the day is the current one
DayRecords(kind, d, t) ==
    LET first == d * DayLen
        last == IF DateOf(t) = d THEN t ELSE d * DayLen + DayLen - 1
        done == session_data(None, DefaultPomodoroDuration, last)
    IN CASE kind = "none" -> <<>>
         [] kind = "pomodoro" -> <<done>>
         [] kind = "break" -> <<Break(first)>>
         [] kind = "uncompleted" -> <<Uncompleted(first)>>
         [] kind = "both" -> <<Uncompleted(first), done>>

RECURSIVE StoredLog(_, _, _)
StoredLog(kinds, d, t) ==
    IF d < 0 THEN <<>>
    ELSE StoredLog(kinds, d - 1, t) \o DayRecords(kinds[d], d, t)

\* the program starts at any time of any day over any such log
InitStreak ==
    /\ now \in 0..(MaxDay * DayLen + DayLen - 1)
    /\ \E kinds \in [Days -> DayKinds] :
         /\ \A d \in Days : d > DateOf(now) => kinds[d] = "none"
         /\ sessions_file = FileOk(json_dump_sessions(StoredLog(kinds, MaxDay, now)))
    /\ tasks_file = FileAbsent
    /\ disk = "ok"
    /\ ProcessStart

\* session logs earlier runs may have stored, for the focus time: completed
\* pomodoros, uncompleted ones and breaks, of the durations the settings menu
\* can be given (minus one minute among them: int() takes "-1")
FocusDurations == {0 - 60, 900, 1500, 3600}

FocusRecords ==
    {[type |-> ty, task |-> "General work", duration |-> d, completed |-> c,
      timestamp |-> 0] :
        ty \in {"pomodoro", "short_break"}, d \in FocusDurations, c \in BOOLEAN}

FocusLogs == UNION {[1..n -> FocusRecords] : n \in 0..MaxLog}

InitFocus ==
    /\ now = 0
    /\ \E log \in FocusLogs : sessions_file = FileOk(json_dump_sessions(log))
    /\ tasks_file = FileAbsent
    /\ disk = "ok"
    /\ ProcessStart

\* session logs for the best day: completed pomodoros, uncompleted ones and
\* breaks of three calendar days, in any order (the log is in time order
\* only while the wall clock is never set back)
BestDays == 0..2

BestDayRecords ==
    {session_data(None, DefaultPomodoroDuration, d * DayLen) : d \in BestDays}
    \cup {Uncompleted(d * DayLen) : d \in BestDays}
    \cup {Break(d * DayLen) : d \in BestDays}

BestDayLogs == UNION {[1..n -> BestDayRecords] : n \in 0..MaxLog}

InitBestDay ==
    /\ now = 2 * DayLen
    /\ \E log \in BestDayLogs : sessions_file = FileOk(json_dump_sessions(log))
    /\ tasks_file = FileAbsent
    /\ disk = "ok"
    /\ ProcessStart

\* TaskManager() over an empty data directory
InitRegistry ==
    /\ Init
    /\ tasks_file = FileAbsent
    /\ sessions_file = FileAbsent

\* the program is started again over what the last run left under data/:
\* main() builds a new PomodoroTimer, TaskManager and Stats.  Each _load_*
\* first calls os.makedirs('data', exist_ok=True), outside any try block:
\* when the directory is missing and cannot be made, the exception ends the
\* process before the menu is shown.
Relaunch ==
    /\ pc \in {"exited", "crashed"}
    /\ Len(load(sessions_file)) < MaxShortRun
    /\ IF data_dir = "absent" /\ disk = "failing"
       THEN /\ pc' = "crashed"
            /\ UNCHANGED <<timerLocals, settings, current_pomodoros, timer_sessions,
                           stats_sessions, data_dir, tasks, last_notification, shown,
                           long_due, result, message>>
       ELSE /\ pc' = "menu"
            /\ data_dir' = "present"
            /\ DropLocals
            /\ reset_to_default
            /\ current_pomodoros' = 0
            /\ timer_sessions' = _load_sessions(sessions_file)
            /\ stats_sessions' = _load_sessions(sessions_file)
            /\ tasks' = _load_tasks(tasks_file)
            /\ last_notification' = "none"
            /\ shown' = NotShown
            /\ long_due' = "no"
            /\ result' = None
            /\ message' = "none"
    /\ UNCHANGED <<sessions_file, tasks_file, now, disk, countdown>>

\* ---------------------------------------------------------- specifications
\* the timer cycle, driven from the main menu
Next ==
    \/ ChooseTimer(MaxPomodoros)
    \/ SelectTask
    \/ PressStart
    \/ PomodoroExpire
    \/ PomodoroInterrupt
    \/ StartBreak
    \/ BreakExpire
    \/ BreakInterrupt
    \/ BreakReturn
    \/ AnswerAnother(MaxPomodoros)
    \/ PromptInterrupt
    \/ AnswerPaused
    \/ ReturnToMenu
    \/ HandlerInterrupt
    \/ Exit
    \/ MenuInterrupt
    \/ DiskFails
    \/ DiskRecovers

Spec == Init /\ [][Next]_vars

\* the timer cycle with the settings menu in use
NextSettings ==
    \/ ChooseTimer(MaxShortRun)
    \/ SelectTask
    \/ PressStart
    \/ PomodoroExpire
    \/ PomodoroInterrupt
    \/ StartBreak
    \/ BreakExpire
    \/ BreakInterrupt
    \/ BreakReturn
    \/ AnswerAnother(MaxShortRun)
    \/ PromptInterrupt
    \/ AnswerPaused
    \/ ReturnToMenu
    \/ HandlerInterrupt
    \/ OpenSettings
    \/ LeaveSettings
    \/ SetPomodoroDuration
    \/ SetShortBreakDuration
    \/ SetLongBreakDuration
    \/ ResetSettings
    \/ Exit
    \/ MenuInterrupt

SpecSettings == Init /\ [][NextSettings]_vars

\* main(): the timer, the task menu and the statistics view
NextApp ==
    \/ ChooseTimer(MaxShortRun)
    \/ SelectTask
    \/ PressStart
    \/ PomodoroExpire
    \/ PomodoroInterrupt
    \/ StartBreak
    \/ BreakExpire
    \/ BreakInterrupt
    \/ BreakReturn
    \/ AnswerAnother(MaxShortRun)
    \/ PromptInterrupt
    \/ AnswerPaused
    \/ ReturnToMenu
    \/ HandlerInterrupt
    \/ ViewStats
    \/ LeaveStats
    \/ OpenTasks
    \/ LeaveTasks
    \/ MenuAddTask
    \/ MenuCompleteTask
    \/ MenuDeleteTask
    \/ MenuAddEmptyName
    \/ MenuNotANumber
    \/ ClockTick
    \/ Exit
    \/ MenuInterrupt

SpecApp == Init /\ [][NextApp]_vars

\* runs of the program one after the other over the same data directory,
\* with writes that may fail
NextRestart ==
    \/ ChooseTimer(MaxShortRun)
    \/ SelectTask
    \/ PressStart
    \/ PomodoroExpire
    \/ StartBreak
    \/ BreakExpire
    \/ BreakReturn
    \/ AnswerAnother(MaxShortRun)
    \/ OpenTasks
    \/ LeaveTasks
    \/ MenuAddTask
    \/ DiskFails
    \/ DiskRecovers
    \/ Exit
    \/ Relaunch

SpecRestart == (Init \/ InitFirstRun) /\ [][NextRestart]_vars

\* the timer and the task menu while writes may fail and data/ may vanish
NextFailingWrites ==
    \/ ChooseTimer(MaxShortRun)
    \/ SelectTask
    \/ PressStart
    \/ PomodoroExpire
    \/ StartBreak
    \/ BreakExpire
    \/ BreakReturn
    \/ AnswerAnother(MaxShortRun)
    \/ OpenTasks
    \/ LeaveTasks
    \/ MenuAddTask
    \/ MenuCompleteTask
    \/ PomodoroExpireRaises
    \/ MenuAddTaskRaises
    \/ DiskFails
    \/ DiskRecovers
    \/ DataDirLost

SpecFailingWrites == InitRegistry /\ [][NextFailingWrites]_vars

\* the session log: the timer appends, the log is cleared, writes may fail
NextLog ==
    \/ ChooseTimer(MaxShortRun)
    \/ SelectTask
    \/ PressStart
    \/ PomodoroExpire
    \/ PomodoroInterrupt
    \/ StartBreak
    \/ BreakExpire
    \/ BreakInterrupt
    \/ BreakReturn
    \/ AnswerAnother(MaxShortRun)
    \/ PromptInterrupt
    \/ AnswerPaused
    \/ ReturnToMenu
    \/ HandlerInterrupt
    \/ ClearAllStats
    \/ DiskFails
    \/ DiskRecovers
    \/ Exit
    \/ MenuInterrupt

SpecLog == Init /\ [][NextLog]_vars

\* the registry's position-based methods under any sequence of calls
NextPositions ==
    \/ AddTask
    \/ CompleteTask
    \/ UncompleteTask
    \/ DeleteTask
    \/ EditTask
    \/ SetPriority

SpecPositions == InitRegistry /\ [][NextPositions]_vars

\* every mutating method of the registry, each with one argument value where
\* the value does not decide whether the method writes
NextStore ==
    \/ AddTaskNamed("a", "medium")
    \/ CompleteTask
    \/ UncompleteTask
    \/ DeleteTask
    \/ \E index \in Positions : EditTaskAt(index, "b")
    \/ \E index \in Positions : SetPriorityAt(index, "high")
    \/ \E id \in {1, MaxTasks + 1} : IncrementPomodoroOf(id)
    \/ ClearCompletedTasks
    \/ ClearAllTasks
    \/ SortTasksByPriority
    \/ SortTasksByDate

SpecStore == InitRegistry /\ [][NextStore]_vars

\* the statistics view over a stored log
NextStreak ==
    \/ ViewStats
    \/ LeaveStats

SpecStreak == InitStreak /\ [][NextStreak]_vars

\* pomodoro cycles with the summary read between them
NextSummary ==
    \/ ChooseTimer(MaxPomodoros)
    \/ SelectTask
    \/ PressStart
    \/ PomodoroExpire
    \/ PomodoroInterrupt
    \/ StartBreak
    \/ BreakExpire
    \/ BreakReturn
    \/ AnswerAnother(MaxPomodoros)
    \/ AnswerPaused
    \/ ReturnToMenu
    \/ GetStatsSummary

SpecSummary == Init /\ [][NextSummary]_vars

\* tasks of every priority, completed or not, and the sort by priority
NextSort ==
    \/ \E priority \in Priorities \cup PriorityInputs : AddTaskNamed("a", priority)
    \/ CompleteTask
    \/ SortTasksByPriority

SpecSort == InitRegistry /\ [][NextSort]_vars

\* the statistics screen over any stored log of mixed records
SpecFocus == InitFocus /\ [][NextStreak]_vars

\* the statistics screen over any stored log of three days in any order
SpecBestDay == InitBestDay /\ [][NextStreak]_vars

\* the task registry under any sequence of calls
NextRegistry ==
    \/ AddTask
    \/ CompleteTask
    \/ UncompleteTask
    \/ DeleteTask
    \/ EditTask
    \/ SetPriority
    \/ IncrementPomodoro
    \/ ClearCompletedTasks
    \/ ClearAllTasks
    \/ SortTasksByPriority
    \/ SortTasksByDate
    \/ ClockTick

SpecRegistry == InitRegistry /\ [][NextRegistry]_vars

\* countdown() on its own, for any duration
NextCountdown ==
    \/ CountdownCall
    \/ CountdownTest
    \/ CountdownBody
    \/ CountdownSleep
    \/ CountdownInterrupt

SpecCountdown == Init /\ [][NextCountdown]_vars

\* the loop is the only thing the thread does: it keeps stepping
SpecCountdownFair ==
    /\ SpecCountdown
    /\ WF_vars(CountdownTest)
    /\ WF_vars(CountdownBody)
    /\ WF_vars(CountdownSleep)

\* ------------------------------------------------------------ properties
Last(seq) == seq[Len(seq)]

IsPrefix(a, b) == Len(a) <= Len(b) /\ SubSeq(b, 1, Len(a)) = a

\* the pomodoro countdown has returned True in this step
NaturalExpiry == pc = "pomodoro" /\ pc' \in {"long_prompt", "short_prompt"}

\* the operator has answered the "mark this session as complete?" prompt
PausedAnswered == pc = "paused" /\ pc' = "return_prompt"

\* C1: when the pomodoro countdown expires naturally the count goes up by
\* one, and the break offered, and any break then started, is the long one
\* exactly when the new count is a multiple of pomodoros_until_long_break.
C1_BreakSelection ==
    /\ [][NaturalExpiry => (
            /\ current_pomodoros' = current_pomodoros + 1
            /\ (pc' = "long_prompt") <=>
                   (current_pomodoros' % pomodoros_until_long_break = 0))]_vars
    /\ [][pc' = "break" /\ pc \in {"long_prompt", "short_prompt"} => (
            /\ (break_type' = "long") <=>
                   (current_pomodoros % pomodoros_until_long_break = 0)
            /\ (break_type' = "short") <=>
                   ~(current_pomodoros % pomodoros_until_long_break = 0))]_vars

\* a long break running after the fourth pomodoro
C1_Witness ==
    /\ pc = "break"
    /\ break_type = "long"
    /\ current_pomodoros = pomodoros_until_long_break

\* C2: answering "y" after an interruption appends exactly one record (type
\* pomodoro, completed, duration = the configured pomodoro_duration), adds
\* exactly one to current_pomodoros, and no countdown starts before
\* start_pomodoro returns.
C2_InterruptedComplete ==
    /\ [][PausedAnswered /\ choice' = "y" => (
            /\ Len(timer_sessions') = Len(timer_sessions) + 1
            /\ IsPrefix(timer_sessions, timer_sessions')
            /\ Last(timer_sessions').type = "pomodoro"
            /\ Last(timer_sessions').completed = TRUE
            /\ Last(timer_sessions').duration = pomodoro_duration
            /\ current_pomodoros' = current_pomodoros + 1)]_vars
    /\ [][pc = "return_prompt" => (
            pc' \in {"return_prompt", "menu", "paused", "exited"})]_vars

\* an interrupted one-minute pomodoro counted as complete
C2_Witness ==
    /\ pc = "return_prompt"
    /\ choice = "y"
    /\ current_pomodoros = 1
    /\ pomodoro_duration # DefaultPomodoroDuration
    /\ timer_sessions # <<>>
    /\ Last(timer_sessions).duration = pomodoro_duration

\* C3: a completed pomodoro started with a selected task adds one to that
\* task's pomodoros_spent in the registry.
C3_TaskCredited ==
    [][Len(timer_sessions') = Len(timer_sessions) + 1 /\ task # None => (
         \E i \in 1..Len(tasks) :
             /\ tasks[i].id = task[1].id
             /\ Len(tasks') = Len(tasks)
             /\ tasks'[i].pomodoros_spent = tasks[i].pomodoros_spent + 1)]_vars

\* C4: any answer other than "y" after an interruption leaves the log, the
\* file, the count and the registry as they were, and no countdown starts.
C4_InterruptedDiscard ==
    /\ [][(pc = "pomodoro" /\ pc' = "paused") \/ (PausedAnswered /\ choice' # "y") => (
            UNCHANGED <<timer_sessions, sessions_file, current_pomodoros, tasks,
                        tasks_file>>)]_vars
    /\ [][pc = "return_prompt" /\ choice # "y" => (
            /\ pc' \in {"return_prompt", "menu", "paused", "exited"}
            /\ UNCHANGED <<timer_sessions, sessions_file, current_pomodoros, tasks,
                           tasks_file>>)]_vars

\* an interrupted pomodoro discarded with an empty answer
C4_Witness ==
    /\ pc = "return_prompt"
    /\ choice = ""
    /\ current_pomodoros = 0
    /\ depth = 1

\* C5: a statistics read from the main menu is computed over a log that
\* holds every record the timer has appended in this run.
C5_StatsSeeAppended ==
    shown.viewed =>
        /\ IsPrefix(timer_sessions, stats_sessions)
        /\ shown.total_pomodoros = get_pomodoro_count(timer_sessions)

\* C6: no two tasks of the registry carry the same id, and ids are positive.
C6_UniqueIds ==
    \A i, j \in 1..Len(tasks) :
        /\ tasks[i].id > 0
        /\ i # j => tasks[i].id # tasks[j].id

\* a step taken inside start_break
InBreak == pc \in {"break", "break_done", "break_interrupted"}

\* C7: every record of the log is a completed pomodoro, and no step of a
\* break, finished or interrupted, touches the log or the count.
C7_OnlyPomodorosLogged ==
    /\ [](\A i \in 1..Len(timer_sessions) :
              timer_sessions[i].type = "pomodoro" /\ timer_sessions[i].completed)
    /\ [][InBreak => (
            UNCHANGED <<timer_sessions, sessions_file, current_pomodoros>>)]_vars

\* a break has run to its end after the one pomodoro on the log
C7_Witness ==
    /\ pc = "break_done"
    /\ last_notification = "Break Over!"
    /\ current_pomodoros = 1
    /\ Len(timer_sessions) = Len(stats_sessions) + 1

\* C8, as claimed: no pomodoro countdown runs while a long break that fell
\* due (the count became a positive multiple of N) has not started.
C8_LongBreakBeforeNextPomodoro == ~(pc = "pomodoro" /\ long_due # "no")

\* C8, amended: a long break that fell due by natural expiry has started
\* before any further pomodoro countdown runs, unless it was cancelled at its
\* prompt; and natural expiry onto a multiple of N always offers it.
C8_LongBreakAfterExpiry ==
    /\ [](~(pc = "pomodoro" /\ long_due = "expired"))
    /\ [][NaturalExpiry /\ current_pomodoros' % pomodoros_until_long_break = 0 => (
            pc' = "long_prompt")]_vars
    /\ [][pc = "long_prompt" => (
            \/ pc' = "long_prompt"
            \/ pc' = "break" /\ break_type' = "long"
            \/ pc' = "paused")]_vars

\* the fifth pomodoro counting down inside the call that ran the long break
C8_Witness ==
    /\ pc = "pomodoro"
    /\ depth = 2
    /\ current_pomodoros = pomodoros_until_long_break
    /\ long_due = "no"
    /\ last_notification = "Pomodoro Started!"

\* C10: interrupting a break countdown changes neither log, file nor count,
\* fires no notification, and leads only to the "start another?" prompt (or
\* the paused prompt on a second Ctrl+C); from there a countdown starts only
\* on the answer "y", and it is a pomodoro.
C10_BreakInterruptDiscards ==
    /\ [][(pc = "break" /\ pc' = "break_interrupted") \/ pc = "break_interrupted" => (
            /\ UNCHANGED <<timer_sessions, sessions_file, current_pomodoros,
                           last_notification>>
            /\ pc' \in {"break_interrupted", "another", "paused"})]_vars
    /\ [][pc = "another" /\ pc' \in {"pomodoro", "break"} => (
            choice' = "y" /\ pc' = "pomodoro")]_vars

\* back at "Start another pomodoro?" with no "Break Over!" fired
C10_Witness ==
    /\ pc = "another"
    /\ last_notification = "Pomodoro Complete!"
    /\ current_pomodoros = 1

\* one pass of the loop: a sleep plus the gap between the two clock readings
TickLen == TicksPerSecond + MaxGap

CountdownRunning == cd_pc \in {"test", "body", "sleep"}

\* C9: a countdown with duration D > 0 keeps its deadline start + D, shows a
\* remaining time that is the whole seconds left and never negative, returns
\* True once, at the first loop test at or after the deadline (less than one
\* pass of the loop late), and unless cancelled it does return.
C9_CountdownTerminates ==
    /\ [](cd_pc # "idle" =>
              end_time = start_time + cd_duration * TicksPerSecond)
    /\ [](cd_pc = "sleep" =>
              /\ remaining >= 0
              /\ remaining * TicksPerSecond <= end_time - start_time
              /\ end_time - clock < (remaining + 1) * TicksPerSecond
              /\ end_time - clock >= 0 => remaining * TicksPerSecond <= end_time - clock)
    /\ [](cd_returns <= 1)
    /\ [](cd_pc = "returned" /\ cd_duration > 0 =>
              /\ cd_returns = 1
              /\ end_time <= clock
              /\ clock < end_time + TickLen)
    /\ [][cd_pc = "returned" => (cd_pc' = "returned" /\ cd_returns' = cd_returns)]_vars
    /\ (CountdownRunning /\ cd_duration > 0) ~> (cd_pc \in {"returned", "raised"})

\* a three-second countdown that has just returned True
C9_Witness ==
    /\ cd_pc = "returned"
    /\ cd_duration = 3
    /\ cd_returns = 1
    /\ clock >= end_time

\* C11, as claimed: every step but the bulk clear keeps the records already on
\* the log as a prefix, in memory and in the persisted file, and a successful
\* add_session leaves the file equal to the log in memory.
C11_LogAppendOnly ==
    /\ [][~ClearAllStats => (
            /\ IsPrefix(timer_sessions, timer_sessions')
            /\ IsPrefix(_load_sessions(sessions_file), _load_sessions(sessions_file')))]_vars
    /\ [][disk = "ok" /\ Len(timer_sessions') > Len(timer_sessions) => (
            _load_sessions(sessions_file') = timer_sessions')]_vars

\* C11, amended: in memory every step but the bulk clear keeps the records
\* already on the log as a prefix and adds at most one; whenever the log
\* changes while writes succeed, the file then holds exactly the log in memory.
C11_AppendOnlyInMemory ==
    /\ [][ClearAllStats \/ (
            /\ IsPrefix(timer_sessions, timer_sessions')
            /\ Len(timer_sessions') <= Len(timer_sessions) + 1)]_vars
    /\ [][disk = "ok" /\ timer_sessions' # timer_sessions => (
            /\ sessions_file'.state = "ok"
            /\ _load_sessions(sessions_file') = timer_sessions')]_vars

\* two records appended in this run, the last for task a, and the file holds
\* the whole log
C11_Witness ==
    /\ disk = "ok"
    /\ Len(timer_sessions) = Len(stats_sessions) + 2
    /\ Last(timer_sessions).task = "a"
    /\ sessions_file = FileOk(json_dump_sessions(timer_sessions))
    /\ current_pomodoros = 2

\* day d has at least one completed pomodoro on the log
ActiveDay(sessions, d) ==
    \E i \in 1..Len(sessions) :
        /\ sessions[i].type = "pomodoro"
        /\ sessions[i].completed
        /\ DateOf(sessions[i].timestamp) = d

\* the k for which each of today, today-1, ..., today-(k-1) is an active day
UnbrokenDays(sessions, today) ==
    {k \in 0..(MaxDay + 1) : \A j \in 0..(k - 1) : ActiveDay(sessions, today - j)}

\* C12: the streak shown is the largest k such that each of the k days
\* today, today-1, ..., today-(k-1) has a completed pomodoro: 0 when today has
\* none, 3 for today and the two days before it followed by a gap.
C12_StreakIsLongestRun ==
    shown.viewed =>
        /\ shown.streak \in UnbrokenDays(stats_sessions, DateOf(now))
        /\ \A k \in UnbrokenDays(stats_sessions, DateOf(now)) : k <= shown.streak
        /\ ~ActiveDay(stats_sessions, DateOf(now)) => shown.streak = 0
        /\ (/\ \A j \in 0..2 : ActiveDay(stats_sessions, DateOf(now) - j)
            /\ ~ActiveDay(stats_sessions, DateOf(now) - 3)) => shown.streak = 3

\* a streak of 3 shown over a log with a gap day and an older active day
C12_Witness ==
    /\ shown.viewed
    /\ shown.streak = 3
    /\ DateOf(now) = 4
    /\ ActiveDay(stats_sessions, 0)
    /\ ~ActiveDay(stats_sessions, 1)
    /\ Len(stats_sessions) > 4

\* C13: delete(i) with i in range removes exactly the task at position i and
\* returns it; the tasks before i stay, the tasks after i move one position
\* down, fields unchanged; complete(0) marks whatever is then at position 0.
C13_DeleteShifts ==
    /\ [][\A i \in Positions : (DeleteTaskAt(i) /\ in_range(tasks, i)) => (
            /\ Len(tasks') = Len(tasks) - 1
            /\ result' = Returned(tasks[i + 1])
            /\ \A j \in 1..i : tasks'[j] = tasks[j]
            /\ \A j \in (i + 2)..Len(tasks) : tasks'[j - 1] = tasks[j])]_vars
    /\ [][(CompleteTaskAt(0) /\ tasks # <<>>) => (
            /\ result' = PyTrue
            /\ tasks'[1] = [tasks[1] EXCEPT !.completed = TRUE,
                                            !.completed_at = Some(now)]
            /\ \A j \in 2..Len(tasks) : tasks'[j] = tasks[j])]_vars

\* the task added second is alone on the list, at position 0, and completed
C13_Witness ==
    /\ result = PyTrue
    /\ Len(tasks) = 1
    /\ tasks[1].id = 2
    /\ tasks[1].name = "b"
    /\ tasks[1].completed
    /\ tasks_file = FileOk(json_dump_tasks(tasks))

\* a call of a mutating method that gets past its checks
MutatingCall ==
    \/ AddTask
    \/ \E i \in Positions :
          /\ in_range(tasks, i)
          /\ \/ CompleteTaskAt(i)
             \/ UncompleteTaskAt(i)
             \/ DeleteTaskAt(i)
             \/ \E new_name \in TaskNames : EditTaskAt(i, new_name)
             \/ \E priority \in Priorities : SetPriorityAt(i, priority)
    \/ \E id \in 1..(MaxTasks + 1) :
          first_with_id(tasks, id) # 0 /\ IncrementPomodoroOf(id)
    \/ ClearCompletedTasks
    \/ ClearAllTasks
    \/ SortTasksByPriority
    \/ SortTasksByDate

\* C14: while writes succeed, after every mutating registry call the file holds
\* the in-memory task list, task for task in the same order, and loads back
\* as that list (a step either leaves the file so, or is no such call).
C14_PersistedEqualsMemory ==
    [][(/\ tasks_file' = FileOk(json_dump_tasks(tasks'))
        /\ Len(_load_tasks(tasks_file')) = Len(tasks')
        /\ \A i \in 1..Len(tasks') : _load_tasks(tasks_file')[i] = tasks'[i])
       \/ ~(disk = "ok" /\ MutatingCall)]_vars

\* two tasks put in a new order by a sort, one of them worked on, and stored
C14_Witness ==
    /\ result = None
    /\ Len(tasks) = 2
    /\ tasks[1].id = 2
    /\ tasks[1].priority = "high"
    /\ tasks[2].id = 1
    /\ tasks[2].pomodoros_spent = 1
    /\ tasks_file = FileOk(json_dump_tasks(tasks))

C16_LoadRecovers ==
    [][Relaunch => (
         /\ pc' = "menu"
         /\ tasks_file.state \in {"absent", "corrupt"} => tasks' = <<>>
         /\ sessions_file.state \in {"absent", "corrupt"} =>
                (timer_sessions' = <<>> /\ stats_sessions' = <<>>)
         /\ tasks_file.state = "ok" => Len(tasks') = Len(tasks_file.data)
         /\ sessions_file.state = "ok" =>
                Len(timer_sessions') = Len(sessions_file.data))]_vars

\* ------------------------------------------------------------------- C17
\* C17: while writes fail, the pomodoro that is counted on expiry is appended
\* to the log in memory and the timer goes on to the break prompt its count
\* calls for, and a change of the task list returns to the task menu.
C17_FailedWriteIsSwallowed ==
    [][disk = "failing" =>
         /\ ((pc = "pomodoro" /\ current_pomodoros' # current_pomodoros) =>
                (/\ timer_sessions'
                      = Append(timer_sessions, session_data(task, pomodoro_duration, now))
                 /\ pc' = break_prompt(break_for(current_pomodoros + 1))))
         /\ ((pc = "task_menu" /\ tasks' # tasks) => pc' = "task_menu")]_vars

\* ------------------------------------------------------------------- C18
\* C18: complete_task, uncomplete_task, edit_task and set_priority called
\* with an index below 0 or at or past the length of the list return False,
\* delete_task returns None, and none of them changes the list in memory or
\* the file.
C18_OutOfRangeRejected ==
    [][\A i \in Positions : (i < 0 \/ i >= Len(tasks)) => (
          /\ (\/ CompleteTaskAt(i)
              \/ UncompleteTaskAt(i)
              \/ \E new_name \in TaskNames : EditTaskAt(i, new_name)
              \/ \E priority \in PriorityInputs : SetPriorityAt(i, priority))
             => (result' = PyFalse /\ tasks' = tasks /\ tasks_file' = tasks_file)
          /\ DeleteTaskAt(i)
             => (result' = None /\ tasks' = tasks /\ tasks_file' = tasks_file))]_vars

\* a call has just been refused with a full list, which the file still holds
C18_Witness ==
    /\ result = PyFalse
    /\ Len(tasks) = MaxTasks
    /\ tasks_file = FileOk(json_dump_tasks(tasks))

\* ------------------------------------------------------------------- C19
\* C19: whatever priority add_task and set_priority are called with, every
\* task on the list has a priority among high, medium and low; and
\* set_priority with any other value returns False and changes neither the
\* list nor the file.
C19_PriorityInSet ==
    /\ [](\A i \in 1..Len(tasks) : tasks[i].priority \in Priorities)
    /\ [][\A i \in Positions, priority \in PriorityInputs \ Priorities :
            SetPriorityAt(i, priority)
            => (result' = PyFalse /\ tasks' = tasks /\ tasks_file' = tasks_file)]_vars

\* ------------------------------------------------------------------- C20
\* C20: increment_pomodoro called with an id on the list adds exactly 1 to
\* pomodoros_spent of the task carrying that id and changes no other task and
\* no other field; called with an id no task carries, it changes neither the
\* list nor the file.
C20_IncrementFrame ==
    [][\A id \in 1..(MaxTasks + 1) : IncrementPomodoroOf(id) =>
          IF \E i \in 1..Len(tasks) : tasks[i].id = id
          THEN /\ Len(tasks') = Len(tasks)
               /\ \A i \in 1..Len(tasks) :
                     tasks'[i] = IF tasks[i].id = id
                                 THEN [tasks[i] EXCEPT !.pomodoros_spent = @ + 1]
                                 ELSE tasks[i]
          ELSE tasks' = tasks /\ tasks_file' = tasks_file]_vars

\* ------------------------------------------------------------------- C21
\* C21: the three durations change only in the settings menu, with no
\* start_pomodoro frame open, so never under a running countdown; a countdown
\* runs with the duration that was configured when it started and keeps it
\* until it ends; and the record of a pomodoro, on expiry or on a confirmed
\* interruption, carries the duration its countdown was started with.
C21_DurationFixedAtStart ==
    /\ [][settings' # settings =>
            (pc = "settings_menu" /\ pc' = "settings_menu" /\ depth = 0 /\ depth' = 0)]_vars
    /\ [](pc = "pomodoro" => cd_duration = pomodoro_duration)
    /\ [](pc = "break" => cd_duration = break_duration(break_type))
    /\ [][(pc \in {"pomodoro", "break"} /\ pc' = pc) => cd_duration' = cd_duration]_vars
    /\ [][NaturalExpiry => Last(timer_sessions').duration = cd_duration]_vars
    /\ [][(PausedAnswered /\ choice' = "y") =>
            Last(timer_sessions').duration = pomodoro_duration]_vars

\* a one-minute pomodoro has expired after a 25-minute one was logged, and
\* the break that follows runs with the configured short-break duration
C21_Witness ==
    /\ pc = "break"
    /\ Len(timer_sessions) = 2
    /\ timer_sessions[1].duration = DefaultPomodoroDuration
    /\ timer_sessions[2].duration = SecondsPerMinute
    /\ pomodoro_duration = SecondsPerMinute
    /\ short_break_duration # DefaultShortBreakDuration
    /\ cd_duration = short_break_duration

\* ------------------------------------------------------------------- C22
\* C22: reset_to_default leaves the three durations at 1500, 300 and 900
\* seconds and changes neither current_pomodoros nor the session log, in
\* memory or on file (pomodoros_until_long_break is never assigned after the
\* constructor).
C22_ResetFrame ==
    [][ResetSettings => (
          /\ pomodoro_duration' = 1500
          /\ short_break_duration' = 300
          /\ long_break_duration' = 900
          /\ current_pomodoros' = current_pomodoros
          /\ timer_sessions' = timer_sessions
          /\ sessions_file' = sessions_file)]_vars

\* the durations are the defaults again after a one-minute pomodoro was counted
\* and logged (no input of the settings menu gives 1500 seconds)
C22_Witness ==
    /\ pc = "settings_menu"
    /\ pomodoro_duration = 1500
    /\ short_break_duration = 300
    /\ long_break_duration = 900
    /\ current_pomodoros = 1
    /\ timer_sessions # <<>>
    /\ Last(timer_sessions).duration = SecondsPerMinute

\* ------------------------------------------------------------------- C23
\* C23: in the task menu, "complete" or "delete" given something that is not
\* a number, or a number that is no position of the list, prints an error
\* message, never a success message, and leaves the list and the file as
\* they were.
C23_InvalidSelectionRejected ==
    [][(\/ MenuNotANumber
        \/ \E task_id \in 0..(Len(tasks) + 1) :
              /\ task_id < 1 \/ task_id > Len(tasks)
              /\ MenuCompleteNumber(task_id) \/ MenuDeleteNumber(task_id))
       => (message' = "error" /\ tasks' = tasks /\ tasks_file' = tasks_file)]_vars

\* ------------------------------------------------------------------- C24
\* the sum of duration over the completed pomodoros of a log, position by
\* position
RECURSIVE FocusSum(_, _)
FocusSum(sessions, n) ==
    IF n = 0 THEN 0
    ELSE FocusSum(sessions, n - 1)
         + (IF sessions[n].type = "pomodoro" /\ sessions[n].completed
            THEN sessions[n].duration ELSE 0)

Completed(d) ==
    [type |-> "pomodoro", task |-> "General work", duration |-> d,
     completed |-> TRUE, timestamp |-> 0]

\* C24: the focus time on the statistics screen is the sum of duration over
\* exactly the completed pomodoros, as floor(total/3600) hours and
\* floor((total mod 3600)/60) minutes, "Hh Mm", without the hours segment
\* when hours is 0; 1500 s + 900 s reads "40m", three times 1500 s "1h 15m".
C24_FocusTimeRendering ==
    /\ get_total_focus_time(<<Completed(1500), Completed(900)>>) = "40m"
    /\ get_total_focus_time(<<Completed(1500), Completed(1500), Completed(1500)>>)
         = "1h 15m"
    /\ shown.viewed =>
         LET total == FocusSum(stats_sessions, Len(stats_sessions))
             hours == total \div 3600
             minutes == (total % 3600) \div 60
         IN shown.total_focus_time =
              IF hours = 0
              THEN ToString(minutes) \o "m"
              ELSE ToString(hours) \o "h " \o ToString(minutes) \o "m"

\* ------------------------------------------------------------------- C25
PriorityRank(p) == IF p = "high" THEN 1 ELSE IF p = "medium" THEN 2 ELSE 3

\* C25: sort_tasks_by_priority leaves a permutation of the list in which no
\* completed task stands before an incomplete one and, among tasks alike in
\* completion, high stands before medium before low; two tasks alike in
\* completion and priority keep their order; and the file holds the sorted
\* list (a step does all this, or is no such sort).
C25_SortByPriority ==
    [][(/\ Len(tasks') = Len(tasks)
        /\ \E f \in Permutations(1..Len(tasks)) :
              \A i \in 1..Len(tasks) : tasks'[i] = tasks[f[i]]
        /\ \A i, j \in 1..Len(tasks) : i < j =>
              /\ ~(tasks'[i].completed /\ ~tasks'[j].completed)
              /\ (/\ tasks'[i].completed = tasks'[j].completed
                  /\ tasks'[i].priority \in Priorities
                  /\ tasks'[j].priority \in Priorities)
                 => PriorityRank(tasks'[i].priority) <= PriorityRank(tasks'[j].priority)
        /\ \A a, b \in 1..Len(tasks) :
              (/\ a < b
               /\ tasks[a].completed = tasks[b].completed
               /\ tasks[a].priority = tasks[b].priority)
              => \E i, j \in 1..Len(tasks) :
                    i < j /\ tasks'[i] = tasks[a] /\ tasks'[j] = tasks[b]
        /\ tasks_file' = FileOk(json_dump_tasks(tasks')))
       \/ ~SortTasksByPriority]_vars

\* a sort has moved the incomplete low-priority task added second in front of
\* the completed high-priority task added first
C25_Witness ==
    /\ result = None
    /\ Len(tasks) = 2
    /\ tasks[1].id = 2 /\ tasks[1].priority = "low" /\ ~tasks[1].completed
    /\ tasks[2].id = 1 /\ tasks[2].priority = "high" /\ tasks[2].completed
    /\ tasks_file = FileOk(json_dump_tasks(tasks))

\* ------------------------------------------------------------------- C26
\* positions of the completed pomodoros of a date in a log
DayPositions(sessions, d) ==
    {i \in 1..Len(sessions) :
        /\ sessions[i].type = "pomodoro"
        /\ sessions[i].completed
        /\ DateOf(sessions[i].timestamp) = d}

FirstPosition(sessions, d) ==
    CHOOSE i \in DayPositions(sessions, d) : \A j \in DayPositions(sessions, d) : i <= j

\* C26: the best day on the statistics screen is none when the log holds no
\* completed pomodoro; otherwise it is a date, with its count of completed
\* pomodoros, that no date exceeds in count, and every other date with the
\* same count has its first record later in the log.
C26_BestDay ==
    shown.viewed =>
      LET active == {d \in BestDays : DayPositions(stats_sessions, d) # {}}
      IN IF active = {}
         THEN shown.best_day = None
         ELSE \E d \in active :
                /\ shown.best_day
                     = Some([date |-> strftime(d),
                             pomodoros |-> Cardinality(DayPositions(stats_sessions, d))])
                /\ \A e \in active :
                      /\ Cardinality(DayPositions(stats_sessions, e))
                           <= Cardinality(DayPositions(stats_sessions, d))
                      /\ (/\ e # d
                          /\ Cardinality(DayPositions(stats_sessions, e))
                               = Cardinality(DayPositions(stats_sessions, d)))
                         => FirstPosition(stats_sessions, d) < FirstPosition(stats_sessions, e)

\* two days tie with one completed pomodoro each; the later day stands first
\* in the log and is the best day shown
C26_Witness ==
    /\ shown.viewed
    /\ Len(stats_sessions) = 3
    /\ DayPositions(stats_sessions, 1) = {1}
    /\ DayPositions(stats_sessions, 0) = {3}
    /\ shown.best_day = Some([date |-> strftime(1), pomodoros |-> 1])

\* C27: each started pomodoro countdown yields at most one Session Record and
\* at most one increment of current_pomodoros, whenever the cancel signal
\* arrives: a step that appends a record or increments the counter is taken
\* only by a frame whose countdown has not yielded a record yet.
C27_AtMostOneRecordPerCountdown ==
    [][(\/ Len(timer_sessions') > Len(timer_sessions)
        \/ current_pomodoros' > current_pomodoros) => ~frame_logged]_vars

\* the step on which the "complete" notification fires
CompleteNotified ==
    /\ last_notification' = "Pomodoro Complete!"
    /\ last_notification # "Pomodoro Complete!"

\* what natural expiry has done by the time the notification fires, the
\* write of the log left aside
ExpiryEffects ==
    /\ pc = "pomodoro"
    /\ current_pomodoros' = current_pomodoros + 1
    /\ timer_sessions' =
         Append(timer_sessions,
                [type |-> "pomodoro",
                 task |-> IF task = None THEN "General work" ELSE task[1].name,
                 duration |-> pomodoro_duration,
                 completed |-> TRUE,
                 timestamp |-> now])
    /\ pc' = IF current_pomodoros' % pomodoros_until_long_break = 0
             THEN "long_prompt" ELSE "short_prompt"
    /\ break_type' = NoBreak

\* the break, the prompt for another pomodoro and its answers
AfterExpiry ==
    /\ (pc' = "break" /\ pc # "break") =>
         (/\ pc \in {"long_prompt", "short_prompt"}
          /\ last_notification = "Pomodoro Complete!"
          /\ frame_logged)
    /\ (pc' = "another" /\ pc # "another") =>
         pc \in {"break_done", "break_interrupted"}
    /\ (pc = "another" /\ pc' # "another") =>
         \/ pc' = "pomodoro" /\ choice' = "y" /\ task' = task /\ depth' = depth + 1
         \/ pc' = "menu" /\ depth' = 0 /\ task' = None
         \/ pc' = "paused" /\ depth' = depth

C29_CounterMatchesAppendedRecords ==
    /\ current_pomodoros = 0
    /\ [][current_pomodoros' - current_pomodoros
            = Len(timer_sessions') - Len(timer_sessions)]_vars

\* two records appended in one run, the first on natural completion and the
\* second on a confirmed interruption of the next pomodoro
C29_Witness ==
    /\ pc = "return_prompt"
    /\ choice = "y"
    /\ depth = 2
    /\ current_pomodoros = 2
    /\ Len(timer_sessions) >= 2

\* completed and completed_at of a task, as a pair
Completion(t) == <<t.completed, t.completed_at>>

\* the same tasks at the same positions, as far as completion goes
SameCompletion ==
    /\ Len(tasks') = Len(tasks)
    /\ \A i \in 1..Len(tasks) : Completion(tasks'[i]) = Completion(tasks[i])

\* the same task records, in any order
Reordered ==
    \E p \in Permutations(1..Len(tasks)) :
        tasks' = [i \in 1..Len(tasks) |-> tasks[p[i]]]

\* C30: from an empty registry a task has completed = true exactly when its
\* completed_at is non-null: add creates (false, null), complete sets both,
\* uncomplete clears both, and edit_name, set_priority, increment_pomodoro
\* and the sorts change neither field of any task.
C30_CompletedIffCompletedAt ==
    /\ [](\A i \in 1..Len(tasks) :
             tasks[i].completed <=> tasks[i].completed_at # None)
    /\ [][/\ Len(tasks') = Len(tasks) + 1 =>
                Completion(tasks'[Len(tasks')]) = <<FALSE, None>>
          /\ \A index \in Positions :
                \/ /\ Len(tasks') = Len(tasks)
                   /\ index + 1 \in 1..Len(tasks)
                   /\ Completion(tasks'[index + 1]) = <<TRUE, Some(now)>>
                   /\ \A i \in 1..Len(tasks) :
                         i # index + 1 => Completion(tasks'[i]) = Completion(tasks[i])
                \/ ~(result' = PyTrue /\ CompleteTaskAt(index))
          /\ \A index \in Positions :
                \/ /\ Len(tasks') = Len(tasks)
                   /\ index + 1 \in 1..Len(tasks)
                   /\ Completion(tasks'[index + 1]) = <<FALSE, None>>
                   /\ \A i \in 1..Len(tasks) :
                         i # index + 1 => Completion(tasks'[i]) = Completion(tasks[i])
                \/ ~(result' = PyTrue /\ UncompleteTaskAt(index))
          /\ \/ SameCompletion
             \/ ~(\/ \E index \in Positions : EditTaskAt(index, "b")
                  \/ \E index \in Positions : SetPriorityAt(index, "high")
                  \/ \E id \in {1, MaxTasks + 1} : IncrementPomodoroOf(id))
          /\ \/ Reordered
             \/ ~(SortTasksByPriority \/ SortTasksByDate)]_vars

\* a completed task with its completion time beside an open one, after a
\* rename, a change of priority and a credited pomodoro
C30_Witness ==
    /\ Len(tasks) = 2
    /\ \E i, j \in 1..2 :
         /\ Completion(tasks[i]) = <<TRUE, Some(now)>>
         /\ Completion(tasks[j]) = <<FALSE, None>>
         /\ tasks[i].name = "b"
         /\ tasks[i].priority = "high"
         /\ tasks[i].pomodoros_spent > 0

\* C31: the next_break that get_stats_summary returned at an idle state is
\* the break that start_pomodoro selects when the next pomodoro, started from
\* that idle state, completes naturally.
C31_NextBreakIsSelected ==
    [][(/\ pc = "pomodoro"
        /\ depth = 1
        /\ pc' \in {"long_prompt", "short_prompt"}
        /\ result # None
        /\ result[2].pomodoros_today = current_pomodoros) =>
           pc' = (IF result[2].next_break = "long" THEN "long_prompt" ELSE "short_prompt")]_vars

\* C32: after any sequence of settings-menu operations the three durations
\* are strictly positive, so every countdown is started with a duration
\* above 0 and no Session Record carries a duration of 0 or less.
C32_DurationsPositive ==
    /\ pomodoro_duration > 0
    /\ short_break_duration > 0
    /\ long_break_duration > 0
    /\ pc \in {"pomodoro", "break"} => cd_duration > 0
    /\ \A i \in 1..Len(timer_sessions) : timer_sessions[i].duration > 0

====
